---- MODULE Spec2Model ----
(***************************************************************************)
(* Model of the TIGERLine class (src/TIGERLine.py): the ring simplifier    *)
(* simplify_shape, the y-lattice index built by LoadFile and the ray       *)
(* casting query GetShapesEnclosing.                                       *)
(*                                                                         *)
(* Coordinates, granularity, ymin and min_dr are integers counted in one   *)
(* common length unit, so all arithmetic of the source is modelled exactly *)
(* over the rationals (comparisons of quotients are cross-multiplied).     *)
(* Rounding error of the binary floating point numbers is not modelled.    *)
(* Point and part indices are 0-based as in the source; TLA+ sequences are *)
(* 1-based, hence the "+ 1" in every element access.                       *)
(***************************************************************************)
EXTENDS Integers, Sequences, FiniteSets, TLC

VARIABLES
    gran,            \* self.gran
    ymin,            \* self.ymin
    attrs,           \* names of the instance attributes that exist
    shapefile,       \* self.shapefile: the reader (open = FALSE models None)
    shapes,          \* self.shapes: the list fetched from the reader
    ly_to_linesecs,  \* self.ly_to_linesecs: lattice cell -> list of [shape_i,part_i,point_i]
    load,            \* arguments and outcome of the last LoadFile call
    query            \* arguments and outcome of the last GetShapesEnclosing call

vars == <<gran, ymin, attrs, shapefile, shapes, ly_to_linesecs, load, query>>

-----------------------------------------------------------------------------
(* Bounds of the model                                                     *)

MaxGran == 2        \* granularities -1 .. MaxGran
MaxX == 6           \* query points have tx in -1 .. MaxX
MaxY == 5           \* query points have ty in -1 .. MaxY
MaxMinDr == 2       \* generated rings are simplified with min_dr in -2 .. MaxMinDr
MaxRingCoord == 1   \* generated rings use coordinates 0 .. MaxRingCoord
MaxRingLen == 3     \* generated rings have 2 .. MaxRingLen points

Grans == -1 .. MaxGran
YMins == {-2, 1}
MinDrs == {-1, 0, 3}
QueryXs == -1 .. MaxX
QueryYs == -1 .. MaxY

-----------------------------------------------------------------------------
(* Small helpers                                                           *)

Abs(a) == IF a < 0 THEN -a ELSE a

Min(a, b) == IF a < b THEN a ELSE b

Max(a, b) == IF a < b THEN b ELSE a

Range(s) == {s[k] : k \in DOMAIN s}

\* Python's points[i:j] for 0 <= i
Slice(s, i, j) == SubSeq(s, i + 1, j)

\* Mutant: the quotient rounded toward minus infinity
IntOfQuotientFloor(a, b) ==
    IF b < 0 THEN (-a) \div (-b) ELSE a \div b

\* Python's int(a / b) for b # 0: the quotient truncated toward zero
IntOfQuotient(a, b) ==
    LET q == Abs(a) \div Abs(b)
    IN  IF (a < 0) # (b < 0) THEN -q ELSE q

-----------------------------------------------------------------------------
(* TIGERLine.__init__                                                      *)

\* Mutant: the constructor creating the attribute LoadFile and the query use
InitAttrsSameName == {"gran", "ymin", "shapefile", "shapes", "ly_to_linesecs"}

InitAttrs == {"gran", "ymin", "shapefile", "shapes", "ly_to_linesections"}

NoFile == [open |-> FALSE, shapes |-> <<>>, records |-> <<>>]

NoLoad == [status |-> "none", filters |-> <<>>, min_dr |-> 0]

NoQuery ==
    [status |-> "none", error |-> "", value |-> <<>>, tx |-> 0, ty |-> 0, ly |-> 0]

-----------------------------------------------------------------------------
(* TIGERLine.to_lattice, TIGERLine.filter, TIGERLine.get_fields            *)

to_lattice(y) == IntOfQuotient(y - ymin, gran)

filter(fields, filters) ==
    \A key \in DOMAIN filters :
        ~(key \in DOMAIN fields /\ fields[key] \notin filters[key])

get_fields(shape_i) == shapefile.records[shape_i + 1]

-----------------------------------------------------------------------------
(* Parts of a shape                                                        *)

\* start index of part part_i
PartStart(shape, part_i) == shape.parts[part_i + 1]

\* stop index of part part_i (exclusive)
PartStop(shape, part_i) ==
    IF part_i < Len(shape.parts) - 1
    THEN shape.parts[part_i + 2]
    ELSE Len(shape.points)

-----------------------------------------------------------------------------
(* TIGERLine.simplify_shape                                                *)

Dist2(p, q) ==
    LET dx == p[1] - q[1]
        dy == p[2] - q[2]
    IN  dx * dx + dy * dy

\* the loop over points[i+1:j-1]: ps is what is left of the slice, p0 the
\* last retained point, points_ the output so far
RECURSIVE simplify_scan(_, _, _, _)
simplify_scan(ps, p0, min_dr2, points_) ==
    IF ps = <<>> THEN points_
    ELSE LET p == Head(ps)
         IN  IF Dist2(p, p0) < min_dr2
             THEN simplify_scan(Tail(ps), p0, min_dr2, points_)
             ELSE simplify_scan(Tail(ps), p, min_dr2, Append(points_, p))

\* Mutant: a part is closed only when a point other than its first was retained
CloseIfGrown(points_, first_i) ==
    IF Len(points_) > first_i + 1
    THEN Append(points_, points_[first_i + 1])
    ELSE points_

\* the explicit closing of a part: a copy of its first retained point
ClosePart(points_, first_i) ==
    Append(points_, <<points_[first_i + 1][1], points_[first_i + 1][2]>>)

RECURSIVE simplify_parts(_, _, _, _, _)
simplify_parts(shape, min_dr2, part_i, parts_, points_) ==
    IF part_i >= Len(shape.parts)
    THEN [parts |-> parts_, points |-> points_]
    ELSE LET i == PartStart(shape, part_i)
             j == PartStop(shape, part_i)
             p0 == shape.points[i + 1]
             first_i == Len(points_)
             scanned == simplify_scan(Slice(shape.points, i + 1, j - 1), p0,
                                      min_dr2, Append(points_, p0))
         IN  simplify_parts(shape, min_dr2, part_i + 1,
                            Append(parts_, first_i),
                            ClosePart(scanned, first_i))

simplify_shape(shape, min_dr) ==
    simplify_parts(shape, min_dr * min_dr, 0, <<>>, <<>>)

-----------------------------------------------------------------------------
(* TIGERLine.LoadFile                                                      *)

\* Mutant: a shape is simplified for every nonzero min_dr
ShouldSimplifyNonZero(min_dr) == min_dr # 0

\* "Should we simplify the shape?"
ShouldSimplify(min_dr) == min_dr > 0

\* Mutant: the index of the previous load is kept and extended
KeptIndex == ly_to_linesecs

\* self.ly_to_linesecs = {}
FreshIndex == <<>>

\* Mutant: the span excludes its upper bound
SpanCellsExclusive(ylo, yhi) == ylo .. (yhi - 1)

\* range(ylo, yhi+1): the span is inclusive of its upper bound
SpanCells(ylo, yhi) == ylo .. yhi

\* Mutant: range(start, stop-2), the closing line section is not walked
part_sections_short(shape_i, shape, part_i) ==
    LET start == PartStart(shape, part_i)
        stop == PartStop(shape, part_i)
    IN  [k \in 1 .. (stop - 2 - start) |-> <<shape_i, part_i, start + k - 1>>]

\* for point_i in range(start, stop-1): the line sections of one part, in
\* the order the loop visits them
part_sections(shape_i, shape, part_i) ==
    LET start == PartStart(shape, part_i)
        stop == PartStop(shape, part_i)
    IN  [k \in 1 .. (stop - 1 - start) |-> <<shape_i, part_i, start + k - 1>>]

\* for part_i in range(n_parts): the line sections of a shape from part_i on
RECURSIVE shape_sections(_, _, _)
shape_sections(shape_i, shape, part_i) ==
    IF part_i >= Len(shape.parts) THEN <<>>
    ELSE part_sections(shape_i, shape, part_i)
            \o shape_sections(shape_i, shape, part_i + 1)

\* the lattice cells spanned by line section ls of the shape
section_cells(shape, ls) ==
    LET pi == shape.points[ls[3] + 1]
        pj == shape.points[ls[3] + 2]
        ylo == to_lattice(Min(pi[2], pj[2]))
        yhi == to_lattice(Max(pi[2], pj[2]))
    IN  SpanCells(ylo, yhi)

\* the walk over the line sections of one shape: every section is appended
\* to the bucket of every cell it spans, a bucket being created when its
\* cell is first met; so each bucket receives, in the order of the walk,
\* the sections that span its cell
index_shape(idx, shape_i, shape) ==
    LET sections == shape_sections(shape_i, shape, 0)
        cells == UNION {section_cells(shape, sections[k]) : k \in DOMAIN sections}
    IN  [y \in DOMAIN idx \cup cells |->
            (IF y \in DOMAIN idx THEN idx[y] ELSE <<>>)
                \o SelectSeq(sections, LAMBDA ls : y \in section_cells(shape, ls))]

\* does the walk over the parts of a shape reach a line section?
HasSection(shape) == shape_sections(0, shape, 0) # <<>>

\* for shape_i, shape in enumerate(self.shapes): the state after the loop, or
\* the state in which to_lattice raised ZeroDivisionError (gran = 0)
RECURSIVE load_shapes(_, _, _, _, _, _)
load_shapes(shape_i, shs, idx, records, filters, min_dr) ==
    IF shape_i >= Len(shs)
    THEN [shapes |-> shs, index |-> idx, status |-> "ok"]
    ELSE IF ~filter(records[shape_i + 1], filters)
    THEN load_shapes(shape_i + 1, shs, idx, records, filters, min_dr)
    ELSE LET shape == IF ShouldSimplify(min_dr)
                      THEN simplify_shape(shs[shape_i + 1], min_dr)
                      ELSE shs[shape_i + 1]
             shs_ == [shs EXCEPT ![shape_i + 1] = shape]
         IN  IF gran = 0 /\ HasSection(shape)
             THEN [shapes |-> shs_, index |-> idx, status |-> "raised"]
             ELSE load_shapes(shape_i + 1, shs_,
                              IF gran = 0 THEN idx
                              ELSE index_shape(idx, shape_i, shape),
                              records, filters, min_dr)

LoadFile(file, filters, min_dr) ==
    LET r == load_shapes(0, file.shapes, FreshIndex, file.records, filters, min_dr)
    IN  /\ shapefile' = [open |-> TRUE, shapes |-> file.shapes, records |-> file.records]
        /\ shapes' = r.shapes
        /\ attrs' = attrs \cup {"ly_to_linesecs"}
        /\ ly_to_linesecs' = r.index
        /\ load' = [status |-> r.status, filters |-> filters, min_dr |-> min_dr]
        /\ query' = NoQuery
        /\ UNCHANGED <<gran, ymin>>

-----------------------------------------------------------------------------
(* TIGERLine.GetShapesEnclosing                                            *)

\* abs(d) < tolerance, tolerance = 1e-9: of a difference of two coordinates
\* that are whole numbers of length units this is true only of 0
WithinTolerance(d) == d = 0

\* "Vertical edge; just test x coordinate directly"
VerticalHit(tx, x0) == tx < x0

\* "If target y outside line section y extents, collision impossible"
OutsideYExtent(ty, y0, y1) == (ty < Min(y0, y1)) \/ (ty > Max(y0, y1))

\* x_ = (ty-y0)/(dy/dx) + x0 and the test x_ < tx, for dx # 0 and dy # 0:
\* (ty-y0)*dx/dy < tx-x0, multiplied by dy
ProjectedBefore(tx, ty, x0, y0, dx, dy) ==
    IF dy > 0
    THEN (ty - y0) * dx < (tx - x0) * dy
    ELSE (ty - y0) * dx > (tx - x0) * dy

\* does the loop body append line section i of the shape to intersections?
Intersects(shape, i, tx, ty) ==
    LET x0 == shape.points[i + 1][1]
        y0 == shape.points[i + 1][2]
        x1 == shape.points[i + 2][1]
        y1 == shape.points[i + 2][2]
        dx == x1 - x0
        dy == y1 - y0
    IN  IF OutsideYExtent(ty, y0, y1) THEN FALSE
        ELSE IF WithinTolerance(dy) THEN FALSE
        ELSE IF WithinTolerance(dx) THEN VerticalHit(tx, x0)
        ELSE ~ProjectedBefore(tx, ty, x0, y0, dx, dy)

\* Mutant: d[k] = [v], the list of a shape is replaced, never extended
count_replace(shape_i, intersections) ==
    IF \E k \in DOMAIN intersections : intersections[k][1] = shape_i
    THEN intersections
    ELSE Append(intersections, <<shape_i, 1>>)

\* dict_append(shape_i, intersections, ls): intersections, a dict in
\* insertion order, as a sequence of <<shape_i, len(intersections[shape_i])>>
count_append(shape_i, intersections) ==
    IF \E k \in DOMAIN intersections : intersections[k][1] = shape_i
    THEN LET k == CHOOSE n \in DOMAIN intersections : intersections[n][1] = shape_i
         IN  [intersections EXCEPT ![k] = <<shape_i, intersections[k][2] + 1>>]
    ELSE Append(intersections, <<shape_i, 1>>)

\* for ls in ls_starts
RECURSIVE scan_sections(_, _, _, _)
scan_sections(ls_starts, tx, ty, intersections) ==
    IF ls_starts = <<>> THEN intersections
    ELSE LET ls == Head(ls_starts)
             shape == shapes[ls[1] + 1]
         IN  scan_sections(Tail(ls_starts), tx, ty,
                           IF Intersects(shape, ls[3], tx, ty)
                           THEN count_append(ls[1], intersections)
                           ELSE intersections)

\* len(lst) % 2 != 0
IsOdd(entry) == entry[2] % 2 # 0

\* "Even (or zero!) intersection count = outside polygon"
odd_counts(intersections) == SelectSeq(intersections, IsOdd)

Raised(error, tx, ty) ==
    [status |-> "raised", error |-> error, value |-> <<>>,
     tx |-> tx, ty |-> ty, ly |-> 0]

\* a returned list, with the lattice cell ly the call computed for ty
Returned(value, tx, ty, ly) ==
    [status |-> "returned", error |-> "", value |-> value,
     tx |-> tx, ty |-> ty, ly |-> ly]

GetShapesEnclosing(tx, ty) ==
    /\ query' =
        IF gran = 0 THEN Raised("ZeroDivisionError", tx, ty)
        ELSE IF "ly_to_linesecs" \notin attrs THEN Raised("AttributeError", tx, ty)
        ELSE LET ly == to_lattice(ty)
             IN  IF ly \notin DOMAIN ly_to_linesecs THEN Returned(<<>>, tx, ty, ly)
                 ELSE Returned(odd_counts(scan_sections(ly_to_linesecs[ly],
                                                        tx, ty, <<>>)), tx, ty, ly)
    /\ UNCHANGED <<gran, ymin, attrs, shapefile, shapes, ly_to_linesecs, load>>

-----------------------------------------------------------------------------
(* The shape files that are loaded                                         *)

Ring(points) == [parts |-> <<0>>, points |-> points]

SquareA == Ring(<< <<0, 0>>, <<2, 0>>, <<2, 2>>, <<0, 2>>, <<0, 0>> >>)

SquareB == Ring(<< <<4, 0>>, <<6, 0>>, <<6, 2>>, <<4, 2>>, <<4, 0>> >>)

Diamond == Ring(<< <<2, 0>>, <<4, 2>>, <<2, 4>>, <<0, 2>>, <<2, 0>> >>)

Triangle == Ring(<< <<3, 1>>, <<6, 1>>, <<6, 4>>, <<3, 1>> >>)

\* an outer square and a square hole, two parts of one shape
Donut ==
    [parts |-> <<0, 5>>,
     points |-> << <<0, 0>>, <<5, 0>>, <<5, 5>>, <<0, 5>>, <<0, 0>>,
                   <<1, 1>>, <<1, 3>>, <<3, 3>>, <<3, 1>>, <<1, 1>> >>]

\* the same, wound the other way and started at other corners
DonutB ==
    [parts |-> <<0, 5>>,
     points |-> << <<6, 5>>, <<6, 0>>, <<1, 0>>, <<1, 5>>, <<6, 5>>,
                   <<5, 4>>, <<3, 4>>, <<3, 2>>, <<5, 2>>, <<5, 4>> >>]

RecordCA == [NAME |-> "A", STUSPS |-> "CA"]

RecordOK == [NAME |-> "C", STUSPS |-> "OK"]

RecordB == [NAME |-> "B"]

File(shs, records) == [shapes |-> shs, records |-> records]

Files == {File(<<SquareA, SquareB>>, <<RecordCA, RecordB>>),
          File(<<Diamond, Triangle>>, <<RecordCA, RecordB>>),
          File(<<Donut, DonutB>>, <<RecordOK, RecordCA>>)}

NoFilters == <<>>

Filters == {NoFilters, [STUSPS |-> {"OK", "IL"}]}

-----------------------------------------------------------------------------
(* The engine: any sequence of loads and queries                           *)

Init ==
    /\ gran \in Grans
    /\ ymin \in YMins
    /\ attrs = InitAttrs
    /\ shapefile = NoFile
    /\ shapes = <<>>
    /\ ly_to_linesecs = <<>>
    /\ load = NoLoad
    /\ query = NoQuery

Load == \E file \in Files, filters \in Filters, min_dr \in MinDrs :
            LoadFile(file, filters, min_dr)

Query == \E tx \in QueryXs, ty \in QueryYs : GetShapesEnclosing(tx, ty)

Next == Load \/ Query

Spec == Init /\ [][Next]_vars

-----------------------------------------------------------------------------
(* The simplifier on generated rings: one load of one generated shape       *)

RingPoints == (0 .. MaxRingCoord) \X (0 .. MaxRingCoord)

\* every closed ring of 2 .. MaxRingLen points over RingPoints
ClosedRings ==
    UNION {{Append(s, s[1]) : s \in [1 .. n -> RingPoints]} :
                n \in 1 .. (MaxRingLen - 1)}

\* a ring that shares no point with the generated ones
FarRing == << <<7, 7>>, <<7, 9>>, <<9, 7>>, <<7, 7>> >>

TwoRings(r1, r2) == [parts |-> <<0, Len(r1)>>, points |-> r1 \o r2]

GeneratedShapes ==
    {Ring(r) : r \in ClosedRings}
        \cup {TwoRings(r, FarRing) : r \in ClosedRings}
        \cup {TwoRings(FarRing, r) : r \in ClosedRings}

RingMinDrs == -2 .. MaxMinDr

InitRings ==
    /\ gran = 1
    /\ ymin = 0
    /\ attrs = InitAttrs
    /\ shapefile = NoFile
    /\ shapes = <<>>
    /\ ly_to_linesecs = <<>>
    /\ load = NoLoad
    /\ query = NoQuery

LoadRing ==
    /\ ~shapefile.open
    /\ \E shape \in GeneratedShapes, min_dr \in RingMinDrs :
            LoadFile(File(<<shape>>, <<RecordB>>), NoFilters, min_dr)

NextRings == LoadRing

SpecRings == InitRings /\ [][NextRings]_vars

-----------------------------------------------------------------------------
(* Vocabulary of the properties                                            *)

Loaded == load.status # "none"

ShapeIds == 0 .. (Len(shapes) - 1)

\* the shape passed the filter of the last load
Kept(shape_i) == filter(get_fields(shape_i), load.filters)

KeptIds == {shape_i \in ShapeIds : Kept(shape_i)}

PartIds(shape) == 0 .. (Len(shape.parts) - 1)

\* the points of ring part_i of a shape
RingOf(shape, part_i) ==
    Slice(shape.points, PartStart(shape, part_i), PartStop(shape, part_i))

\* the identifiers of the segments of a shape: pairs of consecutive points
\* of one ring
SegmentIds(shape_i, shape) ==
    {ls \in {shape_i} \X PartIds(shape) \X (0 .. (Len(shape.points) - 1)) :
        /\ PartStart(shape, ls[2]) <= ls[3]
        /\ ls[3] + 1 <= PartStop(shape, ls[2]) - 1}

SegmentY(shape, ls, k) == shape.points[ls[3] + k][2]

\* the shape is in the result of the last query
InResult(shape_i) == \E k \in DOMAIN query.value : query.value[k][1] = shape_i

SegmentLoY(shape, ls) == Min(SegmentY(shape, ls, 1), SegmentY(shape, ls, 2))

SegmentHiY(shape, ls) == Max(SegmentY(shape, ls, 1), SegmentY(shape, ls, 2))

\* some coordinate of an indexed shape lies below y_min
SomeYBelowYMin ==
    \E shape_i \in KeptIds : \E k \in DOMAIN shapes[shape_i + 1].points :
        shapes[shape_i + 1].points[k][2] < ymin

-----------------------------------------------------------------------------
(* C2: the lattice index is only a coarse filter                           *)

\* the exact per-segment test applied to every segment of a shape
ExactCount(shape_i, tx, ty) ==
    Cardinality({ls \in SegmentIds(shape_i, shapes[shape_i + 1]) :
                    Intersects(shapes[shape_i + 1], ls[3], tx, ty)})

\* the indexed shapes with an odd count, in shape order, without the index
ExactResult(tx, ty) ==
    SelectSeq([k \in 1 .. Len(shapes) |-> <<k - 1, ExactCount(k - 1, tx, ty)>>],
              LAMBDA e : Kept(e[1]) /\ e[2] % 2 = 1)

\* C2: for every granularity > 0, every y_min and every query point, the
\* list GetShapesEnclosing returns equals the list obtained by applying the
\* exact per-segment test to every segment of every indexed shape without
\* consulting the index; that list does not depend on the granularity.
C2_IndexIsCoarseFilter ==
    (query.status = "returned" /\ gran > 0)
        => query.value = ExactResult(query.tx, query.ty)

\* a query whose bucket holds a segment the exact check rejects, with
\* coordinates below y_min, and that returns a shape
C2_Witness ==
    /\ query.status = "returned"
    /\ gran > 0
    /\ query.value # <<>>
    /\ SomeYBelowYMin
    /\ \E ls \in Range(ly_to_linesecs[to_lattice(query.ty)]) :
            OutsideYExtent(query.ty, SegmentY(shapes[ls[1] + 1], ls, 1),
                           SegmentY(shapes[ls[1] + 1], ls, 2))

-----------------------------------------------------------------------------
(* C6: lattice bucket coverage                                             *)

\* C6: after LoadFile with granularity > 0, the identifier of every segment
\* of every ring of every shape that passed the filter is in the bucket of
\* to_lattice(min(y0,y1)), of to_lattice(max(y0,y1)) and of every cell
\* between them.
C6_BucketCoverage ==
    (load.status = "ok" /\ gran > 0) =>
        \A shape_i \in KeptIds :
            \A ls \in SegmentIds(shape_i, shapes[shape_i + 1]) :
                \A y \in to_lattice(SegmentLoY(shapes[shape_i + 1], ls)) ..
                         to_lattice(SegmentHiY(shapes[shape_i + 1], ls)) :
                    /\ y \in DOMAIN ly_to_linesecs
                    /\ ls \in Range(ly_to_linesecs[y])

\* a load that indexed a segment spanning at least three cells, in a shape
\* set with a filtered-out shape
C6_Witness ==
    /\ load.status = "ok"
    /\ gran > 0
    /\ KeptIds # ShapeIds
    /\ \E shape_i \in KeptIds :
            \E ls \in SegmentIds(shape_i, shapes[shape_i + 1]) :
                /\ to_lattice(SegmentHiY(shapes[shape_i + 1], ls))
                        >= to_lattice(SegmentLoY(shapes[shape_i + 1], ls)) + 2
                /\ ls \in Range(ly_to_linesecs[
                            to_lattice(SegmentLoY(shapes[shape_i + 1], ls)) + 1])

-----------------------------------------------------------------------------
(* C9: the index refers to the shape set of the most recent load           *)

\* every entry of every bucket is a segment of a shape that passed the
\* filter, inside one ring of the shape's current points, spans the cell of
\* its bucket, and occurs in the bucket once
IndexRefersToCurrentShapes ==
    \A y \in DOMAIN ly_to_linesecs :
        \A k \in DOMAIN ly_to_linesecs[y] :
            LET ls == ly_to_linesecs[y][k]
            IN  /\ ls[1] \in KeptIds
                /\ ls \in SegmentIds(ls[1], shapes[ls[1] + 1])
                /\ y \in section_cells(shapes[ls[1] + 1], ls)
                /\ \A j \in DOMAIN ly_to_linesecs[y] :
                        ly_to_linesecs[y][j] = ls => j = k

\* C9: in every state reached by loads and queries, every index entry
\* refers to a shape that passed the filter of the most recent load and to
\* two consecutive points of one ring of its current (simplified) points,
\* no entry of an earlier load survives, and a query changes neither the
\* index nor the shapes.
C9_IndexIsCurrent ==
    /\ [](Loaded => IndexRefersToCurrentShapes)
    /\ [][query'.status # "none" =>
            UNCHANGED <<shapefile, shapes, ly_to_linesecs>>]_vars

\* a queried state whose shapes were filtered and changed by simplification
C9_Witness ==
    /\ load.status = "ok"
    /\ query.status = "returned"
    /\ KeptIds # ShapeIds
    /\ shapes # shapefile.shapes
    /\ DOMAIN ly_to_linesecs # {}

-----------------------------------------------------------------------------
(* C7: non-positive granularity                                            *)

\* C7: with granularity <= 0, LoadFile ends in an error and never completes
\* with an index that later queries silently read.
C7_NonPositiveGranularityRejected ==
    gran <= 0 => (load.status # "ok" /\ query.status # "returned")

-----------------------------------------------------------------------------
(* C8: query before any load                                               *)

\* C8: GetShapesEnclosing called before any LoadFile fails with an error; it
\* never returns a result list.
C8_QueryBeforeLoadFails ==
    (~shapefile.open /\ query.status # "none") => query.status = "raised"

\* a query made before any load, on an engine with a usable granularity
C8_Witness ==
    /\ ~shapefile.open
    /\ gran > 0
    /\ query.status = "raised"
    /\ query.error = "AttributeError"

-----------------------------------------------------------------------------
(* C10: to_lattice and floor                                               *)

\* C10: for every y, y_min and granularity > 0, to_lattice(y) equals
\* floor((y - y_min) / granularity), also for y below y_min: the cell a
\* query computes for its target y is that floor.
C10_ToLatticeIsFloor ==
    (query.status = "returned" /\ gran > 0)
        => query.ly = (query.ty - ymin) \div gran

\* C10, amended: for granularity > 0, to_lattice(y) is the quotient
\* truncated toward zero: floor((y - y_min) / granularity) for y >= y_min,
\* and -floor((y_min - y) / granularity) for y below y_min.
C10_ToLatticeTruncates ==
    (query.status = "returned" /\ gran > 0) =>
        /\ query.ty >= ymin => query.ly = (query.ty - ymin) \div gran
        /\ query.ty < ymin => query.ly = -((ymin - query.ty) \div gran)

\* a query below y_min whose quotient is not an integer: its cell is one
\* above the floor
C10_Witness ==
    /\ query.status = "returned"
    /\ gran > 0
    /\ query.ty < ymin
    /\ (ymin - query.ty) % gran # 0
    /\ query.ly = ((query.ty - ymin) \div gran) + 1

-----------------------------------------------------------------------------
(* C1: parity correctness for simple rings                                 *)

\* twice the signed area of the triangle a, b, p: its sign is the side of
\* the line from a to b on which p lies
Side(a, b, p) == (b[1] - a[1]) * (p[2] - a[2]) - (b[2] - a[2]) * (p[1] - a[1])

EdgeIds(shape) == 1 .. (Len(shape.points) - 1)

\* a shape of one closed ring that is a convex polygon with at least three
\* corners, none of them flat: such a ring is simple
IsConvexRing(shape) ==
    LET ps == shape.points
        n == Len(ps) - 1
    IN  /\ shape.parts = <<0>>
        /\ n >= 3
        /\ ps[n + 1] = ps[1]
        /\ \E s \in {-1, 1} :
            /\ \A k \in 1 .. n : \A v \in 1 .. n :
                    s * Side(ps[k], ps[k + 1], ps[v]) >= 0
            /\ \A k \in 1 .. n :
                    s * Side(ps[k], ps[k + 1], ps[(k % n) + 2]) > 0

StrictlyInsideConvex(shape, p) ==
    \E s \in {-1, 1} : \A k \in EdgeIds(shape) :
        s * Side(shape.points[k], shape.points[k + 1], p) > 0

OnBoundary(shape, p) ==
    \E k \in EdgeIds(shape) :
        LET a == shape.points[k]
            b == shape.points[k + 1]
        IN  /\ Side(a, b, p) = 0
            /\ Min(a[1], b[1]) <= p[1] /\ p[1] <= Max(a[1], b[1])
            /\ Min(a[2], b[2]) <= p[2] /\ p[2] <= Max(a[2], b[2])

\* C1: when every loaded shape is a single simple closed ring and the query
\* point lies on no boundary segment, GetShapesEnclosing returns a shape if
\* and only if the point is strictly inside its ring, also when the ray
\* passes through a ring vertex and for rings with slanted edges.
C1_ParityCorrect ==
    ( /\ query.status = "returned"
      /\ gran > 0
      /\ KeptIds # {}
      /\ \A shape_i \in KeptIds :
            /\ IsConvexRing(shapes[shape_i + 1])
            /\ ~OnBoundary(shapes[shape_i + 1], <<query.tx, query.ty>>) )
    => \A shape_i \in KeptIds :
            InResult(shape_i)
                <=> StrictlyInsideConvex(shapes[shape_i + 1], <<query.tx, query.ty>>)

-----------------------------------------------------------------------------
(* C3: a square ring with a square hole                                    *)

Xs(ring) == {ring[k][1] : k \in DOMAIN ring}

Ys(ring) == {ring[k][2] : k \in DOMAIN ring}

Lowest(S) == CHOOSE a \in S : \A b \in S : a <= b

Highest(S) == CHOOSE a \in S : \A b \in S : a >= b

\* a closed ring of the four corners of an axis-aligned square
IsSquareRing(ring) ==
    /\ Len(ring) = 5
    /\ ring[5] = ring[1]
    /\ Cardinality(Xs(ring)) = 2
    /\ Cardinality(Ys(ring)) = 2
    /\ Cardinality({ring[k] : k \in 1 .. 4}) = 4
    /\ \A k \in 1 .. 4 : (ring[k][1] = ring[k + 1][1]) # (ring[k][2] = ring[k + 1][2])
    /\ Highest(Xs(ring)) - Lowest(Xs(ring)) = Highest(Ys(ring)) - Lowest(Ys(ring))

StrictlyInRing(ring, p) ==
    /\ Lowest(Xs(ring)) < p[1] /\ p[1] < Highest(Xs(ring))
    /\ Lowest(Ys(ring)) < p[2] /\ p[2] < Highest(Ys(ring))

InClosedRing(ring, p) ==
    /\ Lowest(Xs(ring)) <= p[1] /\ p[1] <= Highest(Xs(ring))
    /\ Lowest(Ys(ring)) <= p[2] /\ p[2] <= Highest(Ys(ring))

\* one shape of two parts: a square ring and a square hole strictly inside
IsSquareWithHole(shape) ==
    /\ Len(shape.parts) = 2
    /\ IsSquareRing(RingOf(shape, 0))
    /\ IsSquareRing(RingOf(shape, 1))
    /\ \A k \in 1 .. 4 : StrictlyInRing(RingOf(shape, 0), RingOf(shape, 1)[k])

InHole(shape, p) == StrictlyInRing(RingOf(shape, 1), p)

BetweenRings(shape, p) ==
    StrictlyInRing(RingOf(shape, 0), p) /\ ~InClosedRing(RingOf(shape, 1), p)

\* C3: for a shape made of a square outer ring and a square hole ring, the
\* count is summed over the segments of both rings: a point strictly inside
\* the hole is not returned, a point strictly between the rings is returned
\* with the odd number of segments of both rings that its ray meets.
C3_HoleParity ==
    (query.status = "returned" /\ gran > 0) =>
        \A shape_i \in KeptIds :
            LET shape == shapes[shape_i + 1]
                p == <<query.tx, query.ty>>
            IN  IsSquareWithHole(shape) =>
                    /\ InHole(shape, p) => ~InResult(shape_i)
                    /\ BetweenRings(shape, p) =>
                        /\ <<shape_i, ExactCount(shape_i, query.tx, query.ty)>>
                                \in Range(query.value)
                        /\ ExactCount(shape_i, query.tx, query.ty) % 2 = 1

\* a query inside the hole of a shape whose two rings both met the ray
C3_Witness ==
    /\ query.status = "returned"
    /\ gran > 0
    /\ \E shape_i \in KeptIds :
            /\ IsSquareWithHole(shapes[shape_i + 1])
            /\ InHole(shapes[shape_i + 1], <<query.tx, query.ty>>)
            /\ ExactCount(shape_i, query.tx, query.ty) = 2
            /\ ~InResult(shape_i)

\* a query between the rings on the row of a hole corner, met by both rings
C3_WitnessBetween ==
    /\ query.status = "returned"
    /\ gran > 0
    /\ \E shape_i \in KeptIds :
            /\ IsSquareWithHole(shapes[shape_i + 1])
            /\ BetweenRings(shapes[shape_i + 1], <<query.tx, query.ty>>)
            /\ ExactCount(shape_i, query.tx, query.ty) = 3
            /\ InResult(shape_i)

-----------------------------------------------------------------------------
(* C4, C5: the simplifier                                                  *)

\* the shape as it was read from the file
Original(shape_i) == shapefile.shapes[shape_i + 1]

IsSubsetOfRing(out, in) == Range(out) \subseteq Range(in)

\* C4: for min_spacing > 0 and closed input rings of at least 2 points,
\* every output ring has at least 2 points and ends on its first point, and
\* the output offsets delimit one output ring per input ring, in order:
\* ring k of the output starts on the first point of ring k of the input
\* and holds points of that ring only.
C4_SimplifiedRingsClosed ==
    (Loaded /\ load.min_dr > 0) =>
        \A shape_i \in KeptIds :
            LET out == shapes[shape_i + 1]
                in == Original(shape_i)
            IN  /\ Len(out.parts) = Len(in.parts)
                /\ out.parts[1] = 0
                /\ \A part_i \in PartIds(out) :
                    LET ring == RingOf(out, part_i)
                    IN  /\ PartStart(out, part_i) < PartStop(out, part_i)
                        /\ Len(ring) >= 2
                        /\ ring[Len(ring)] = ring[1]
                        /\ ring[1] = RingOf(in, part_i)[1]
                        /\ IsSubsetOfRing(ring, RingOf(in, part_i))

\* a two-ring shape simplified with a min_spacing above the diameter of one
\* of its rings, which collapsed to its first point twice
C4_Witness ==
    /\ Loaded
    /\ load.min_dr > 0
    /\ Len(shapes[1].parts) = 2
    /\ \E part_i \in PartIds(shapes[1]) :
            /\ Len(RingOf(Original(0), part_i)) > 2
            /\ Cardinality(Range(RingOf(Original(0), part_i))) > 1
            /\ Len(RingOf(shapes[1], part_i)) = 2

\* C5: simplifying with min_spacing <= 0, zero or negative, is the identity:
\* every ring keeps exactly its points, in order.
C5_NonPositiveSpacingIsIdentity ==
    (Loaded /\ load.min_dr <= 0) =>
        \A shape_i \in ShapeIds : shapes[shape_i + 1] = Original(shape_i)

\* a load with a negative min_spacing of a ring that repeats a point
C5_Witness ==
    /\ Loaded
    /\ load.min_dr < 0
    /\ \E k \in 1 .. (Len(shapes[1].points) - 2) :
            shapes[1].points[k] = shapes[1].points[k + 1]
    /\ shapes[1] = Original(0)

====
